---- MODULE Spec2Model ----
(***************************************************************************)
(* Academic-records REST backend (FastAPI + SQLModel).                     *)
(*                                                                         *)
(* The state is the relational database (user, subject,                    *)
(* student_subject_link, score), the wall clock, the bearer tokens that    *)
(* /token has issued, and the last HTTP exchange.  Every endpoint is one   *)
(* operator that maps a request and the current database to a status, a    *)
(* body and the database it commits; the action of the endpoint applies    *)
(* that result.  A request whose handler raises closes its session without *)
(* a commit, so it leaves the database as it was.  The handlers that read  *)
(* the database and write it later (create_user, create_score) also run as *)
(* two steps, checks and commit, so that requests served by different      *)
(* workers interleave between the two.                                     *)
(***************************************************************************)
EXTENDS Integers, FiniteSets, Sequences, TLC

VARIABLES
    backend,    \* the database behind DATABASE_URL: "sqlite" or "server"
    users,      \* table user
    subjects,   \* table subject
    links,      \* table student_subject_link, <<student_id, subject_id>>
    scores,     \* table score
    user_seq,   \* last value of the user_id sequence ("server" only)
    score_seq,  \* last value of the score_id sequence ("server" only)
    issued,     \* tokens returned by POST /token so far
    now,        \* wall clock, in minutes
    resp,       \* the last request and its response
    inflight    \* requests whose handler has passed its checks and not yet committed

vars ==
    <<backend, users, subjects, links, scores, user_seq, score_seq, issued, now, resp,
      inflight>>

-----------------------------------------------------------------------------
(* Bounds of the model *)

MaxUserId == 4
MaxScoreId == 2
MaxTokens == 1
TickStep == 30
MaxNow == 60
MaxInflight == 2

(* Program constants *)

ACCESS_TOKEN_EXPIRE_MINUTES == 30

STUDENT == "student"
PROFESSOR == "professor"
ADMIN == "admin"
Role == {STUDENT, PROFESSOR, ADMIN}

NoneStr == "None"
NoneInt == 0

Max(S) == IF S = {} THEN 0 ELSE CHOOSE m \in S : \A x \in S : x <= m

-----------------------------------------------------------------------------
(* Lookup table role_user, filled by init_lookup_tables in enum order. No  *)
(* endpoint writes it.                                                     *)

Role_User ==
    { [role_id |-> 1, role |-> STUDENT],
      [role_id |-> 2, role |-> PROFESSOR],
      [role_id |-> 3, role |-> ADMIN] }

get_role_id(rol) ==
    IF \E r \in Role_User : r.role = rol
    THEN (CHOOSE r \in Role_User : r.role = rol).role_id
    ELSE NoneInt

get_role_enum(role_id) ==
    IF \E r \in Role_User : r.role_id = role_id
    THEN (CHOOSE r \in Role_User : r.role_id = role_id).role
    ELSE NoneStr

-----------------------------------------------------------------------------
(* Passwords: a hash is the scheme together with the password it was made  *)
(* from; verifying re-hashes and compares.                                 *)

pwd_hash(password) == <<"bcrypt", password>>

verify_password(password, hashed_password) == hashed_password = pwd_hash(password)

-----------------------------------------------------------------------------
(* Rows *)

UserRow(id, name, cedula, email, role, password, specialization, career) ==
    [ user_id |-> id, name_user |-> name, cedula |-> cedula, email |-> email,
      role_id |-> get_role_id(role), hashed_password |-> pwd_hash(password),
      specialization |-> specialization, career |-> career ]

NoUser ==
    [ user_id |-> NoneInt, name_user |-> NoneStr, cedula |-> NoneStr, email |-> NoneStr,
      role_id |-> NoneInt, hashed_password |-> <<"bcrypt", NoneStr>>,
      specialization |-> NoneStr, career |-> NoneStr ]

NoSubject == [ subject_id |-> NoneInt, professor_id |-> NoneInt ]

NoScore ==
    [ score_id |-> NoneInt, student_id |-> NoneInt, subject_id |-> NoneInt,
      professor_id |-> NoneInt, score_type |-> NoneStr, valor |-> 0 ]

(* session.get(models.X, id) *)
GetUser(id) ==
    IF \E u \in users : u.user_id = id THEN CHOOSE u \in users : u.user_id = id ELSE NoUser

GetSubject(id) ==
    IF \E s \in subjects : s.subject_id = id
    THEN CHOOSE s \in subjects : s.subject_id = id ELSE NoSubject

GetScore(id) ==
    IF \E s \in scores : s.score_id = id
    THEN CHOOSE s \in scores : s.score_id = id ELSE NoScore

RoleOf(u) == get_role_enum(u.role_id)

(* The database as one value, and the result of a handler *)
DB ==
    [ users |-> users, subjects |-> subjects, links |-> links, scores |-> scores,
      user_seq |-> user_seq, score_seq |-> score_seq ]

Result(status, body, db) == [ status |-> status, body |-> body, db |-> db ]

(* A raised HTTPException, or an exception that escapes the handler: the   *)
(* session is closed without a commit.                                     *)
Raise(status) == Result(status, {}, DB)

(* The key a new row gets: SQLite's rowid is one more than the largest key *)
(* in the table; a server database draws from a sequence.                  *)
NextKey(keys, seq) == IF backend = "sqlite" THEN Max(keys) + 1 ELSE seq + 1

ForeignKeysEnforced == backend = "server"

-----------------------------------------------------------------------------
(* Tokens. A token is its claims, its expiry and whether its signature was *)
(* made with SECRET_KEY.                                                   *)

Token(sub, user_id, role, exp, signed) ==
    [ sub |-> sub, user_id |-> user_id, role |-> role, exp |-> exp, signed |-> signed ]

(* No Authorization header at all *)
NoToken == Token(NoneStr, NoneInt, NoneStr, 0, FALSE)

create_access_token(data, expires_delta) ==
    Token(data.sub, data.user_id, data.role, now + expires_delta, TRUE)

(* jwt.decode: JWTError on a bad signature or an expiry in the past *)
jwt_decode_ok(token) == token.signed /\ token.exp >= now

(* get_current_user looking the user up by name_user alone *)
get_current_user_by_name(token) ==
    IF token = NoToken THEN NoUser
    ELSE IF ~jwt_decode_ok(token) THEN NoUser
    ELSE IF token.sub = NoneStr \/ token.user_id = NoneInt THEN NoUser
    ELSE IF \E u \in users : u.name_user = token.sub
         THEN CHOOSE u \in users : u.name_user = token.sub
         ELSE NoUser

get_current_user(token) ==
    IF token = NoToken THEN NoUser
    ELSE IF ~jwt_decode_ok(token) THEN NoUser
    ELSE IF token.sub = NoneStr \/ token.user_id = NoneInt THEN NoUser
    ELSE IF \E u \in users : u.name_user = token.sub /\ u.user_id = token.user_id
         THEN CHOOSE u \in users : u.name_user = token.sub /\ u.user_id = token.user_id
         ELSE NoUser

(* The user a request is made for: the one its token authenticates *)
Caller(token) == get_current_user(token).user_id

(* get_current_admin_user without the comparison of the role *)
get_current_admin_user_any_role(token) ==
    IF get_current_user(token) = NoUser THEN 401 ELSE 0

(* Dependencies return 0 when they let the request through, else the status *)
get_current_admin_user(token) ==
    IF get_current_user(token) = NoUser THEN 401
    ELSE IF RoleOf(get_current_user(token)) # ADMIN THEN 403
    ELSE 0

get_current_professor_user(token) ==
    IF get_current_user(token) = NoUser THEN 401
    ELSE IF RoleOf(get_current_user(token)) # PROFESSOR THEN 403
    ELSE 0

(* get_optional_admin_or_anon. The body of its try block raises 401 (from   *)
(* get_current_user) or 403 (not an admin); "except Exception" catches     *)
(* both, HTTPException being an Exception, and the dependency returns None *)
(* as it does for a request without a token.                               *)
get_optional_admin_or_anon(token) ==
    IF token = NoToken THEN 0
    ELSE LET raised == IF get_current_user(token) = NoUser THEN 401
                       ELSE IF RoleOf(get_current_user(token)) # ADMIN THEN 403
                       ELSE 0
         IN IF raised # 0 THEN 0 ELSE 0

-----------------------------------------------------------------------------
(* Request bodies. Unset is an optional field the request leaves out;      *)
(* NoneStr is JSON null.                                                   *)

Unset == "Unset"
Falsy(v) == v \in {NoneStr, ""}
Stored(v) == IF v = Unset THEN NoneStr ELSE v

UserCreateBody(name, cedula, email, role, password, specialization, career) ==
    [ name_user |-> name, cedula |-> cedula, email |-> email, role |-> role,
      password |-> password, specialization |-> specialization, career |-> career ]

UserUpdateBody(email, password, specialization, career) ==
    [ email |-> email, password |-> password,
      specialization |-> specialization, career |-> career ]

(* schemas.UserCreate: a field validator runs only for a field the request *)
(* carries.                                                                *)
UserCreate_valid(body) ==
    /\ body.specialization # Unset =>
          /\ ~(body.role = PROFESSOR /\ Falsy(body.specialization))
          /\ ~(body.role # PROFESSOR /\ ~Falsy(body.specialization))
    /\ body.career # Unset =>
          /\ ~(body.role = STUDENT /\ Falsy(body.career))
          /\ ~(body.role # STUDENT /\ ~Falsy(body.career))

(* schemas.UserUpdate has no role field, so info.data.get("role") is None  *)
(* and never equals a role.                                                *)
UserUpdate_valid(body) ==
    /\ body.specialization # Unset => Falsy(body.specialization)
    /\ body.career # Unset => Falsy(body.career)

convert_user_to_public(u) ==
    [ user_id |-> u.user_id, name_user |-> u.name_user, cedula |-> u.cedula,
      email |-> u.email, role |-> get_role_enum(u.role_id),
      specialization |-> u.specialization, career |-> u.career ]

-----------------------------------------------------------------------------
(* POST /token *)

(* login_for_access_token without the verification of the password *)
login_for_access_token_no_verify(username, password) ==
    LET found == \E u \in users : u.name_user = username
        user  == IF found THEN CHOOSE u \in users : u.name_user = username ELSE NoUser
    IN  IF ~found THEN Raise(401)
        ELSE IF get_role_enum(user.role_id) = NoneStr THEN Raise(500)
        ELSE Result(200,
                    { create_access_token(
                        [ sub |-> user.name_user, role |-> get_role_enum(user.role_id),
                          user_id |-> user.user_id ],
                        ACCESS_TOKEN_EXPIRE_MINUTES) },
                    DB)

login_for_access_token(username, password) ==
    LET found == \E u \in users : u.name_user = username
        user  == IF found THEN CHOOSE u \in users : u.name_user = username ELSE NoUser
    IN  IF ~found \/ ~verify_password(password, user.hashed_password) THEN Raise(401)
        ELSE IF get_role_enum(user.role_id) = NoneStr THEN Raise(500)
        ELSE Result(200,
                    { create_access_token(
                        [ sub |-> user.name_user, role |-> get_role_enum(user.role_id),
                          user_id |-> user.user_id ],
                        ACCESS_TOKEN_EXPIRE_MINUTES) },
                    DB)

-----------------------------------------------------------------------------
(* /usuarios *)

(* Table user without its unique indexes *)
uq_user_unique_dropped(row) == TRUE

(* The unique indexes of table user: name_user, cedula, email *)
uq_user_unique(row) ==
    ~\E u \in users : /\ u.user_id # row.user_id
                      /\ \/ u.name_user = row.name_user
                         \/ u.cedula = row.cedula
                         \/ u.email = row.email

(* create_user without the search for a user with the same email,          *)
(* name_user or cedula                                                     *)
create_user_checks_no_search(token, body) ==
    IF get_optional_admin_or_anon(token) # 0 THEN get_optional_admin_or_anon(token)
    ELSE IF ~UserCreate_valid(body) THEN 422
    ELSE IF body.role # PROFESSOR /\ body.specialization \notin {Unset, NoneStr, ""}
         THEN 422
    ELSE IF body.role # STUDENT /\ body.career \notin {Unset, NoneStr, ""}
         THEN 422
    ELSE IF get_role_id(body.role) = NoneInt THEN 404
    ELSE 0

(* create_user up to the row it builds: 0 when every check passes, else    *)
(* the status of the HTTPException.                                        *)
create_user_checks(token, body) ==
    IF get_optional_admin_or_anon(token) # 0 THEN get_optional_admin_or_anon(token)
    ELSE IF ~UserCreate_valid(body) THEN 422
    ELSE IF \E u \in users : \/ u.email = body.email
                             \/ u.name_user = body.name_user
                             \/ u.cedula = body.cedula
         THEN 409
    ELSE IF body.role # PROFESSOR /\ body.specialization \notin {Unset, NoneStr, ""}
         THEN 422
    ELSE IF body.role # STUDENT /\ body.career \notin {Unset, NoneStr, ""}
         THEN 422
    ELSE IF get_role_id(body.role) = NoneInt THEN 404
    ELSE 0

(* session.add, session.commit: an IntegrityError of the unique indexes is *)
(* caught by "except Exception", rolled back and answered 500.             *)
create_user_commit(body) ==
    LET id == NextKey({u.user_id : u \in users}, user_seq)
        db_user == UserRow(id, body.name_user, body.cedula, body.email, body.role,
                           body.password, Stored(body.specialization),
                           Stored(body.career))
    IN  IF ~uq_user_unique(db_user) THEN Raise(500)
        ELSE Result(201, {convert_user_to_public(db_user)},
                    [DB EXCEPT !.users = users \cup {db_user},
                               !.user_seq = IF backend = "server" THEN id ELSE user_seq])

create_user(token, body) ==
    LET refused == create_user_checks(token, body) IN
    IF refused # 0 THEN Raise(refused) ELSE create_user_commit(body)

read_users_me(token) ==
    IF get_current_user(token) = NoUser THEN Raise(401)
    ELSE Result(200, {convert_user_to_public(get_current_user(token))}, DB)

(* read_user looking the user up before it checks the permission *)
read_user_lookup_first(token, user_id) ==
    LET current_user == get_current_user(token) IN
    IF current_user = NoUser THEN Raise(401)
    ELSE IF GetUser(user_id) = NoUser THEN Raise(404)
    ELSE IF get_role_enum(current_user.role_id) # ADMIN /\ current_user.user_id # user_id
         THEN Raise(403)
    ELSE Result(200, {convert_user_to_public(GetUser(user_id))}, DB)

read_user(token, user_id) ==
    LET current_user == get_current_user(token) IN
    IF current_user = NoUser THEN Raise(401)
    ELSE IF get_role_enum(current_user.role_id) # ADMIN /\ current_user.user_id # user_id
         THEN Raise(403)
    ELSE IF GetUser(user_id) = NoUser THEN Raise(404)
    ELSE Result(200, {convert_user_to_public(GetUser(user_id))}, DB)

(* update_my_user without the validators of UserUpdate and without the     *)
(* checks of the role                                                      *)
update_my_user_unchecked(token, body) ==
    LET user == get_current_user(token)
        has(v) == v \notin {Unset, NoneStr}
        updated == [ user EXCEPT
                       !.email = IF has(body.email) THEN body.email ELSE @,
                       !.specialization =
                           IF has(body.specialization) THEN body.specialization ELSE @,
                       !.career = IF has(body.career) THEN body.career ELSE @,
                       !.hashed_password =
                           IF has(body.password) THEN pwd_hash(body.password) ELSE @ ]
    IN  IF user = NoUser THEN Raise(401)
        ELSE IF \E u \in users : u.user_id # user.user_id /\ u.email = updated.email
             THEN Raise(500)
        ELSE Result(200, {convert_user_to_public(updated)},
                    [DB EXCEPT !.users = (users \ {user}) \cup {updated}])

update_my_user(token, body) ==
    LET user == get_current_user(token)
        user_role == get_role_enum(user.role_id)
        \* model_dump(exclude_unset=True) without the None values
        has(v) == v \notin {Unset, NoneStr}
        updated == [ user EXCEPT
                       !.email = IF has(body.email) THEN body.email ELSE @,
                       !.specialization =
                           IF has(body.specialization) THEN body.specialization ELSE @,
                       !.career = IF has(body.career) THEN body.career ELSE @,
                       !.hashed_password =
                           IF has(body.password) THEN pwd_hash(body.password) ELSE @ ]
    IN  IF user = NoUser THEN Raise(401)
        ELSE IF ~UserUpdate_valid(body) THEN Raise(422)
        ELSE IF has(body.specialization) /\ user_role # PROFESSOR THEN Raise(422)
        ELSE IF has(body.career) /\ user_role # STUDENT THEN Raise(422)
        \* commit: the unique index on email
        ELSE IF \E u \in users : u.user_id # user.user_id /\ u.email = updated.email
             THEN Raise(500)
        ELSE Result(200, {convert_user_to_public(updated)},
                    [DB EXCEPT !.users = (users \ {user}) \cup {updated}])

(* session.delete(user): the unit of work empties the user's rows of the   *)
(* link table and sets the foreign key of the subjects and scores that     *)
(* point at the user to NULL, which their NOT NULL columns refuse.         *)
delete_user(token, user_id) ==
    IF get_current_admin_user(token) # 0 THEN Raise(get_current_admin_user(token))
    ELSE IF GetUser(user_id) = NoUser THEN Raise(404)
    ELSE IF \/ \E s \in subjects : s.professor_id = user_id
            \/ \E s \in scores : s.student_id = user_id \/ s.professor_id = user_id
         THEN Raise(500)
    ELSE Result(204, {},
                [DB EXCEPT !.users = users \ {GetUser(user_id)},
                           !.links = {l \in links : l[1] # user_id}])

(* skip = 0 and limit = 10, the defaults: every row the bounds allow *)
list_users(token) ==
    IF get_current_admin_user(token) # 0 THEN Raise(get_current_admin_user(token))
    ELSE Result(200, {convert_user_to_public(u) : u \in users}, DB)

-----------------------------------------------------------------------------
(* /materias *)

SubjectCreateBody(professor_id) == [ professor_id |-> professor_id ]

(* The Subject row is built from the unpacked dump of the body together   *)
(* with professor_id = current_user.user_id. The dump of a SubjectCreate   *)
(* has a professor_id of its own, so the call passes the keyword twice and *)
(* raises TypeError before any row is made.                                *)
create_subject(token, body) ==
    IF get_current_professor_user(token) # 0 THEN Raise(get_current_professor_user(token))
    ELSE Raise(500)

list_subjects(token) ==
    LET current_user == get_current_user(token) IN
    IF current_user = NoUser THEN Raise(401)
    ELSE IF get_role_enum(current_user.role_id) # ADMIN THEN Raise(403)
    ELSE Result(200, subjects, DB)

my_subjects(token) ==
    IF get_current_professor_user(token) # 0 THEN Raise(get_current_professor_user(token))
    ELSE Result(200, {s \in subjects : s.professor_id = Caller(token)}, DB)

get_subject(token, subject_id) ==
    LET current_user == get_current_user(token) IN
    IF current_user = NoUser THEN Raise(401)
    ELSE IF get_role_enum(current_user.role_id) # ADMIN THEN Raise(403)
    ELSE IF GetSubject(subject_id) = NoSubject THEN Raise(404)
    ELSE Result(200, {GetSubject(subject_id)}, DB)

(* The body is a SubjectCreate, so it always carries a professor_id, which *)
(* is written to the row like any other field. The commit fails on the     *)
(* foreign key where the database checks it.                               *)
update_subject(token, subject_id, body) ==
    LET db_subject == GetSubject(subject_id)
        updated == [db_subject EXCEPT !.professor_id = body.professor_id]
    IN  IF get_current_professor_user(token) # 0
        THEN Raise(get_current_professor_user(token))
        ELSE IF db_subject = NoSubject THEN Raise(404)
        ELSE IF db_subject.professor_id # Caller(token) THEN Raise(403)
        ELSE IF ForeignKeysEnforced /\ GetUser(body.professor_id) = NoUser THEN Raise(500)
        ELSE Result(200, {updated},
                    [DB EXCEPT !.subjects = (subjects \ {db_subject}) \cup {updated}])

(* session.delete(subject) empties the subject's rows of the link table    *)
(* and sets subject_id of its scores to NULL, which the column refuses.    *)
delete_subject(token, subject_id) ==
    LET subject == GetSubject(subject_id) IN
    IF get_current_professor_user(token) # 0 THEN Raise(get_current_professor_user(token))
    ELSE IF subject = NoSubject THEN Raise(404)
    ELSE IF subject.professor_id # Caller(token) THEN Raise(403)
    ELSE IF \E s \in scores : s.subject_id = subject_id THEN Raise(500)
    ELSE Result(204, {},
                [DB EXCEPT !.subjects = subjects \ {subject},
                           !.links = {l \in links : l[2] # subject_id}])

list_subject_students(token, subject_id) ==
    LET current_user == get_current_user(token)
        subject == GetSubject(subject_id)
    IN  IF current_user = NoUser THEN Raise(401)
        ELSE IF subject = NoSubject THEN Raise(404)
        ELSE IF /\ get_role_enum(current_user.role_id) = PROFESSOR
                /\ subject.professor_id # current_user.user_id
             THEN Raise(403)
        ELSE Result(200,
                    { convert_user_to_public(u) :
                        u \in {v \in users : <<v.user_id, subject_id>> \in links} },
                    DB)

(* The checks of enroll_student, up to the search for the link: 0 when the  *)
(* request passes them, the status of the HTTPException otherwise.          *)
enroll_student_checks(token, subject_id, student_id) ==
    LET subject == GetSubject(subject_id)
        student == GetUser(student_id)
    IN  IF get_current_professor_user(token) # 0
        THEN get_current_professor_user(token)
        ELSE IF subject = NoSubject THEN 404
        ELSE IF student = NoUser THEN 404
        ELSE IF subject.professor_id # Caller(token) THEN 403
        ELSE IF <<student_id, subject_id>> \in links THEN 409
        ELSE 0

(* session.add, session.commit: the insert fails on the primary key        *)
(* (student_id, subject_id) and, where the database checks them, on the     *)
(* foreign keys; nothing catches the IntegrityError.                        *)
enroll_student_commit(subject_id, student_id) ==
    IF <<student_id, subject_id>> \in links THEN Raise(500)
    ELSE IF /\ ForeignKeysEnforced
            /\ \/ GetSubject(subject_id) = NoSubject
               \/ GetUser(student_id) = NoUser
         THEN Raise(500)
    ELSE Result(200, {}, [DB EXCEPT !.links = links \cup {<<student_id, subject_id>>}])

enroll_student(token, subject_id, student_id) ==
    LET refused == enroll_student_checks(token, subject_id, student_id) IN
    IF refused # 0 THEN Raise(refused) ELSE enroll_student_commit(subject_id, student_id)

(* unenroll_student without its session.delete *)
unenroll_student_keeps_link(token, subject_id, student_id) ==
    LET subject == GetSubject(subject_id) IN
    IF get_current_professor_user(token) # 0 THEN Raise(get_current_professor_user(token))
    ELSE IF subject = NoSubject THEN Raise(404)
    ELSE IF subject.professor_id # Caller(token) THEN Raise(403)
    ELSE IF <<student_id, subject_id>> \notin links THEN Raise(404)
    ELSE Result(200, {}, DB)

unenroll_student(token, subject_id, student_id) ==
    LET subject == GetSubject(subject_id) IN
    IF get_current_professor_user(token) # 0 THEN Raise(get_current_professor_user(token))
    ELSE IF subject = NoSubject THEN Raise(404)
    ELSE IF subject.professor_id # Caller(token) THEN Raise(403)
    ELSE IF <<student_id, subject_id>> \notin links THEN Raise(404)
    ELSE Result(200, {}, [DB EXCEPT !.links = links \ {<<student_id, subject_id>>}])

-----------------------------------------------------------------------------
(* /calificaciones *)

ScoreCreateBody(student_id, subject_id, score_type, valor) ==
    [ student_id |-> student_id, subject_id |-> subject_id,
      score_type |-> score_type, valor |-> valor ]

ScoreBaseBody(score_type, valor) == [ score_type |-> score_type, valor |-> valor ]

(* The scores table without its unique constraint *)
uq_score_unique_dropped(row) == TRUE

(* UniqueConstraint("student_id", "subject_id", "score_type"): would the   *)
(* table still satisfy it with row in it?                                  *)
uq_score_unique(row) ==
    ~\E s \in scores : /\ s.score_id # row.score_id
                       /\ s.student_id = row.student_id
                       /\ s.subject_id = row.subject_id
                       /\ s.score_type = row.score_type

(* create_score without the check of the role of the student *)
create_score_checks_any_user(token, score) ==
    LET subject == GetSubject(score.subject_id)
        student == GetUser(score.student_id)
    IN  IF get_current_professor_user(token) # 0 THEN get_current_professor_user(token)
        ELSE IF subject = NoSubject THEN 404
        ELSE IF subject.professor_id # Caller(token) THEN 403
        ELSE IF student = NoUser THEN 404
        ELSE IF <<score.student_id, score.subject_id>> \notin links THEN 409
        ELSE IF \E s \in scores : /\ s.student_id = score.student_id
                                  /\ s.subject_id = score.subject_id
                                  /\ s.score_type = score.score_type
             THEN 409
        ELSE 0

(* create_score up to the row it builds: 0 when every check passes, else   *)
(* the status of the HTTPException.                                        *)
create_score_checks(token, score) ==
    LET subject == GetSubject(score.subject_id)
        student == GetUser(score.student_id)
    IN  IF get_current_professor_user(token) # 0 THEN get_current_professor_user(token)
        ELSE IF subject = NoSubject THEN 404
        ELSE IF subject.professor_id # Caller(token) THEN 403
        ELSE IF student = NoUser \/ get_role_enum(student.role_id) # STUDENT THEN 404
        ELSE IF <<score.student_id, score.subject_id>> \notin links THEN 409
        ELSE IF \E s \in scores : /\ s.student_id = score.student_id
                                  /\ s.subject_id = score.subject_id
                                  /\ s.score_type = score.score_type
             THEN 409
        ELSE 0

(* The insert of create_score into a table without uq_score_unique *)
create_score_commit_unchecked(professor_id, score) ==
    LET id == NextKey({s.score_id : s \in scores}, score_seq)
        db_score == [ score_id |-> id, student_id |-> score.student_id,
                      subject_id |-> score.subject_id, professor_id |-> professor_id,
                      score_type |-> score.score_type, valor |-> score.valor ]
    IN  Result(201, {db_score},
               [DB EXCEPT !.scores = scores \cup {db_score},
                          !.score_seq = IF backend = "server" THEN id ELSE score_seq])

(* session.add, session.commit: the table model takes valor as it comes;   *)
(* the insert fails on uq_score_unique and, where the database checks      *)
(* them, on the foreign keys; nothing catches the IntegrityError.          *)
create_score_commit(professor_id, score) ==
    LET id == NextKey({s.score_id : s \in scores}, score_seq)
        db_score == [ score_id |-> id, student_id |-> score.student_id,
                      subject_id |-> score.subject_id, professor_id |-> professor_id,
                      score_type |-> score.score_type, valor |-> score.valor ]
    IN  IF ~uq_score_unique(db_score) THEN Raise(500)
        ELSE IF /\ ForeignKeysEnforced
                /\ \/ GetSubject(score.subject_id) = NoSubject
                   \/ GetUser(score.student_id) = NoUser
                   \/ GetUser(professor_id) = NoUser
             THEN Raise(500)
        ELSE Result(201, {db_score},
                    [DB EXCEPT !.scores = scores \cup {db_score},
                               !.score_seq = IF backend = "server" THEN id ELSE score_seq])

create_score(token, score) ==
    LET refused == create_score_checks(token, score) IN
    IF refused # 0 THEN Raise(refused) ELSE create_score_commit(Caller(token), score)

list_scores(token) ==
    LET current_user == get_current_user(token)
        current_role == get_role_enum(current_user.role_id)
    IN  IF current_user = NoUser THEN Raise(401)
        ELSE IF current_role = PROFESSOR
             THEN Result(200, {s \in scores : s.professor_id = current_user.user_id}, DB)
        ELSE IF current_role = STUDENT
             THEN Result(200, {s \in scores : s.student_id = current_user.user_id}, DB)
        ELSE Result(200, scores, DB)

get_score(token, score_id) ==
    LET current_user == get_current_user(token)
        current_role == get_role_enum(current_user.role_id)
        score == GetScore(score_id)
    IN  IF current_user = NoUser THEN Raise(401)
        ELSE IF score = NoScore THEN Raise(404)
        ELSE IF current_role = PROFESSOR /\ score.professor_id # current_user.user_id
             THEN Raise(403)
        ELSE IF current_role = STUDENT /\ score.student_id # current_user.user_id
             THEN Raise(403)
        ELSE Result(200, {score}, DB)

(* The body is a schemas.ScoreBase: valor and score_type are required, so  *)
(* both are written. The commit fails on uq_score_unique.                  *)
(* update_score without the comparison of score.professor_id *)
update_score_any_professor(token, score_id, score_update) ==
    LET score == GetScore(score_id)
        updated == [score EXCEPT !.score_type = score_update.score_type,
                                 !.valor = score_update.valor]
    IN  IF get_current_professor_user(token) # 0
        THEN Raise(get_current_professor_user(token))
        ELSE IF score = NoScore THEN Raise(404)
        ELSE IF ~uq_score_unique(updated) THEN Raise(500)
        ELSE Result(200, {updated},
                    [DB EXCEPT !.scores = (scores \ {score}) \cup {updated}])

update_score(token, score_id, score_update) ==
    LET score == GetScore(score_id)
        updated == [score EXCEPT !.score_type = score_update.score_type,
                                 !.valor = score_update.valor]
    IN  IF get_current_professor_user(token) # 0
        THEN Raise(get_current_professor_user(token))
        ELSE IF score = NoScore THEN Raise(404)
        ELSE IF score.professor_id # Caller(token) THEN Raise(403)
        ELSE IF ~uq_score_unique(updated) THEN Raise(500)
        ELSE Result(200, {updated},
                    [DB EXCEPT !.scores = (scores \ {score}) \cup {updated}])

delete_score(token, score_id) ==
    LET score == GetScore(score_id) IN
    IF get_current_professor_user(token) # 0 THEN Raise(get_current_professor_user(token))
    ELSE IF score = NoScore THEN Raise(404)
    ELSE IF score.professor_id # Caller(token) THEN Raise(403)
    ELSE Result(204, {}, [DB EXCEPT !.scores = scores \ {score}])

scores_por_estudiante(token, student_id) ==
    LET current_user == get_current_user(token)
        student == GetUser(student_id)
    IN  IF current_user = NoUser THEN Raise(401)
        ELSE IF student = NoUser \/ get_role_enum(student.role_id) # STUDENT THEN Raise(404)
        ELSE IF /\ get_role_enum(current_user.role_id) = STUDENT
                /\ current_user.user_id # student_id
             THEN Raise(403)
        ELSE Result(200, {s \in scores : s.student_id = student_id}, DB)

scores_por_materia(token, subject_id) ==
    LET current_user == get_current_user(token)
        subject == GetSubject(subject_id)
    IN  IF current_user = NoUser THEN Raise(401)
        ELSE IF subject = NoSubject THEN Raise(404)
        ELSE IF /\ get_role_enum(current_user.role_id) = PROFESSOR
                /\ subject.professor_id # current_user.user_id
             THEN Raise(403)
        ELSE Result(200, {s \in scores : s.subject_id = subject_id}, DB)

-----------------------------------------------------------------------------
(* Requests *)

(* Tokens signed with SECRET_KEY that this run of POST /token did not      *)
(* issue (the key outlives the database), and one with a wrong signature.  *)
FarExp == MaxNow + ACCESS_TOKEN_EXPIRE_MINUTES

ForeignTokens ==
    { Token("root", 1, ADMIN, FarExp, FALSE),
      Token(NoneStr, 1, ADMIN, FarExp, TRUE),
      Token("root", NoneInt, ADMIN, FarExp, TRUE),
      Token("root", 2, ADMIN, FarExp, TRUE) }

Credentials(I) == {NoToken} \cup issued \cup I.tokens

(* resp: the endpoint, the user the token stands for, the id in the path,  *)
(* and the status and the body of the response.                            *)
NoRequest ==
    [ op |-> "none", caller |-> NoneInt, target |-> NoneInt, status |-> 0, body |-> {} ]

(* The database after a request is the one its handler committed; pending *)
(* is what stays in flight.                                                *)
Respond(op, caller, target, result, pending) ==
    \E r \in {result} :
        /\ \A u \in r.db.users \ users : u.user_id <= MaxUserId
        /\ \A s \in r.db.scores \ scores : s.score_id <= MaxScoreId
        /\ resp' = [ op |-> op, caller |-> caller, target |-> target,
                     status |-> r.status, body |-> r.body ]
        /\ users' = r.db.users
        /\ subjects' = r.db.subjects
        /\ links' = r.db.links
        /\ scores' = r.db.scores
        /\ user_seq' = r.db.user_seq
        /\ score_seq' = r.db.score_seq
        /\ inflight' = pending
        /\ UNCHANGED <<backend, issued, now>>

(* A request served in one step *)
Apply(op, token, target, result) == Respond(op, Caller(token), target, result, inflight)

(* A handler that has passed its checks and waits for its commit *)
Enqueue(request) ==
    /\ request \notin inflight
    /\ Cardinality(inflight) < MaxInflight
    /\ inflight' = inflight \cup {request}
    /\ resp' = NoRequest
    /\ UNCHANGED <<backend, users, subjects, links, scores, user_seq, score_seq, issued, now>>

Tick ==
    /\ now + TickStep <= MaxNow
    /\ now' = now + TickStep
    /\ resp' = NoRequest
    /\ UNCHANGED <<backend, users, subjects, links, scores, user_seq, score_seq, issued,
                   inflight>>

Login(I) ==
    \E username \in I.usernames, password \in I.passwords :
        LET r == login_for_access_token(username, password) IN
        /\ Cardinality(issued \cup r.body) <= MaxTokens
        /\ issued' = issued \cup r.body
        /\ resp' = [ op |-> "login_for_access_token", caller |-> NoneInt,
                     target |-> NoneInt, status |-> r.status, body |-> r.body ]
        /\ UNCHANGED <<backend, users, subjects, links, scores, user_seq, score_seq, now,
                       inflight>>

CreateUser(I) ==
    \E token \in Credentials(I), body \in I.user_bodies :
        Apply("create_user", token, NoneInt, create_user(token, body))

ReadUsersMe(I) ==
    \E token \in Credentials(I) : Apply("read_users_me", token, NoneInt, read_users_me(token))

ReadUser(I) ==
    \E token \in Credentials(I), user_id \in I.user_ids :
        Apply("read_user", token, user_id, read_user(token, user_id))

UpdateMyUser(I) ==
    \E token \in Credentials(I), body \in I.user_updates :
        Apply("update_my_user", token, NoneInt, update_my_user(token, body))

DeleteUser(I) ==
    \E token \in Credentials(I), user_id \in I.user_ids :
        Apply("delete_user", token, user_id, delete_user(token, user_id))

ListUsers(I) ==
    \E token \in Credentials(I) : Apply("list_users", token, NoneInt, list_users(token))

CreateSubject(I) ==
    \E token \in Credentials(I), professor_id \in I.professor_ids :
        Apply("create_subject", token, NoneInt,
              create_subject(token, SubjectCreateBody(professor_id)))

ListSubjects(I) ==
    \E token \in Credentials(I) : Apply("list_subjects", token, NoneInt, list_subjects(token))

MySubjects(I) ==
    \E token \in Credentials(I) : Apply("my_subjects", token, NoneInt, my_subjects(token))

GetSubjectById(I) ==
    \E token \in Credentials(I), subject_id \in I.subject_ids :
        Apply("get_subject", token, subject_id, get_subject(token, subject_id))

UpdateSubject(I) ==
    \E token \in Credentials(I), subject_id \in I.subject_ids, professor_id \in I.professor_ids :
        Apply("update_subject", token, subject_id,
              update_subject(token, subject_id, SubjectCreateBody(professor_id)))

DeleteSubject(I) ==
    \E token \in Credentials(I), subject_id \in I.subject_ids :
        Apply("delete_subject", token, subject_id, delete_subject(token, subject_id))

ListSubjectStudents(I) ==
    \E token \in Credentials(I), subject_id \in I.subject_ids :
        Apply("list_subject_students", token, subject_id,
              list_subject_students(token, subject_id))

EnrollStudent(I) ==
    \E token \in Credentials(I), subject_id \in I.subject_ids, student_id \in I.student_ids :
        Apply("enroll_student", token, subject_id,
              enroll_student(token, subject_id, student_id))

UnenrollStudent(I) ==
    \E token \in Credentials(I), subject_id \in I.subject_ids, student_id \in I.student_ids :
        Apply("unenroll_student", token, subject_id,
              unenroll_student(token, subject_id, student_id))

CreateScore(I) ==
    \E token \in Credentials(I), subject_id \in I.subject_ids, student_id \in I.student_ids,
       score_type \in I.score_types, valor \in I.valores :
        Apply("create_score", token, NoneInt,
              create_score(token, ScoreCreateBody(student_id, subject_id, score_type, valor)))

ListScores(I) ==
    \E token \in Credentials(I) : Apply("list_scores", token, NoneInt, list_scores(token))

GetScoreById(I) ==
    \E token \in Credentials(I), score_id \in I.score_ids :
        Apply("get_score", token, score_id, get_score(token, score_id))

UpdateScore(I) ==
    \E token \in Credentials(I), score_id \in I.score_ids,
       score_type \in I.score_types, valor \in I.valores :
        Apply("update_score", token, score_id,
              update_score(token, score_id, ScoreBaseBody(score_type, valor)))

DeleteScore(I) ==
    \E token \in Credentials(I), score_id \in I.score_ids :
        Apply("delete_score", token, score_id, delete_score(token, score_id))

ScoresPorEstudiante(I) ==
    \E token \in Credentials(I), student_id \in I.student_ids :
        Apply("scores_por_estudiante", token, student_id,
              scores_por_estudiante(token, student_id))

ScoresPorMateria(I) ==
    \E token \in Credentials(I), subject_id \in I.subject_ids :
        Apply("scores_por_materia", token, subject_id,
              scores_por_materia(token, subject_id))

-----------------------------------------------------------------------------
(* create_user and create_score served by concurrent workers: the checks   *)
(* of a request read the database of that moment, its commit meets the     *)
(* database that the commits in between have left.                         *)

BeginCreateUser(I) ==
    \E token \in Credentials(I), body \in I.user_bodies :
        IF create_user_checks(token, body) # 0
        THEN Apply("create_user", token, NoneInt, Raise(create_user_checks(token, body)))
        ELSE Enqueue([ op |-> "create_user", caller |-> Caller(token),
                       body |-> body ])

CommitCreateUser ==
    \E request \in inflight :
        /\ request.op = "create_user"
        /\ Respond("create_user", request.caller, NoneInt,
                   create_user_commit(request.body), inflight \ {request})

BeginCreateScore(I) ==
    \E token \in Credentials(I), subject_id \in I.subject_ids, student_id \in I.student_ids,
       score_type \in I.score_types, valor \in I.valores :
        LET score == ScoreCreateBody(student_id, subject_id, score_type, valor) IN
        IF create_score_checks(token, score) # 0
        THEN Apply("create_score", token, NoneInt, Raise(create_score_checks(token, score)))
        ELSE Enqueue([ op |-> "create_score", caller |-> Caller(token),
                       body |-> score ])

CommitCreateScore ==
    \E request \in inflight :
        /\ request.op = "create_score"
        /\ Respond("create_score", request.caller, NoneInt,
                   create_score_commit(request.caller, request.body),
                   inflight \ {request})

(* Two workers can hold the same request of the same caller *)
BeginEnrollStudent(I) ==
    \E token \in Credentials(I), subject_id \in I.subject_ids, student_id \in I.student_ids,
       worker \in I.workers :
        IF enroll_student_checks(token, subject_id, student_id) # 0
        THEN Apply("enroll_student", token, subject_id,
                   Raise(enroll_student_checks(token, subject_id, student_id)))
        ELSE Enqueue([ op |-> "enroll_student", caller |-> Caller(token), worker |-> worker,
                       body |-> [ subject_id |-> subject_id, student_id |-> student_id ] ])

CommitEnrollStudent ==
    \E request \in inflight :
        /\ request.op = "enroll_student"
        /\ Respond("enroll_student", request.caller, request.body.subject_id,
                   enroll_student_commit(request.body.subject_id, request.body.student_id),
                   inflight \ {request})

-----------------------------------------------------------------------------
(* The database the service starts on. lifespan creates the tables that    *)
(* are missing and keeps the rows that are there: an administrator, two    *)
(* professors, two students and the subject of the first professor.        *)

Root == UserRow(1, "root", "1000001", "root@uni.edu", ADMIN, "pw1", NoneStr, NoneStr)
Ana == UserRow(2, "ana", "1000002", "ana@uni.edu", PROFESSOR, "pw1", "math", NoneStr)
Eva == UserRow(3, "eva", "1000003", "eva@uni.edu", STUDENT, "pw1", NoneStr, "physics")
Ben == UserRow(4, "ben", "1000004", "ben@uni.edu", PROFESSOR, "pw1", "math", NoneStr)
Leo == UserRow(5, "leo", "1000005", "leo@uni.edu", STUDENT, "pw1", NoneStr, "physics")

Backends == {"sqlite", "server"}

InitDB(seed_users) ==
    /\ backend \in Backends
    /\ users = seed_users
    /\ subjects = { [subject_id |-> 1, professor_id |-> Ana.user_id] }
    /\ links = {}
    /\ scores = {}
    /\ user_seq = IF backend = "server" THEN Max({u.user_id : u \in seed_users}) ELSE 0
    /\ score_seq = 0
    /\ now = 0
    /\ resp = NoRequest
    /\ inflight = {}

(* Accounts and authentication: users come and go, tokens are issued and  *)
(* expire.                                                                 *)
AuthInputs ==
    [ usernames |-> {"root", "ana", "eva", "ben"},
      passwords |-> {"pw1", "pw2"},
      user_bodies |->
          { UserCreateBody("ben", "1000004", "ben@uni.edu", PROFESSOR, "pw1", "math", Unset),
            UserCreateBody("ana", "1000009", "ana2@uni.edu", STUDENT, "pw1", Unset, "law") },
      user_updates |-> { UserUpdateBody(Unset, "pw2", Unset, Unset) },
      user_ids |-> 1..MaxUserId,
      subject_ids |-> {1},
      tokens |-> ForeignTokens ]

Init ==
    /\ InitDB({Root, Ana, Eva})
    /\ issued = {}

Next ==
    \/ Tick
    \/ Login(AuthInputs)
    \/ CreateUser(AuthInputs)
    \/ ReadUsersMe(AuthInputs)
    \/ ReadUser(AuthInputs)
    \/ UpdateMyUser(AuthInputs)
    \/ DeleteUser(AuthInputs)
    \/ ListUsers(AuthInputs)
    \/ ListSubjects(AuthInputs)
    \/ GetSubjectById(AuthInputs)

Spec == Init /\ [][Next]_vars

(* Subjects and grades: the two professors and the two students hold a    *)
(* token each; the requests range over both professors and both kinds of   *)
(* grade.                                                                  *)
GradeInputs ==
    [ subject_ids |-> {1},
      professor_ids |-> {Ana.user_id, Ben.user_id},
      student_ids |-> {Leo.user_id},
      score_types |-> {"parcial", "final"},
      valores |-> {50},
      score_ids |-> 1..MaxScoreId,
      tokens |-> {} ]

TokenOf(u) ==
    Token(u.name_user, u.user_id, get_role_enum(u.role_id), ACCESS_TOKEN_EXPIRE_MINUTES, TRUE)

InitGrades ==
    /\ InitDB({Root, Ana, Eva, Ben, Leo})
    /\ issued = {TokenOf(u) : u \in {Ana, Eva, Ben, Leo}}

NextGrades ==
    \/ UpdateSubject(GradeInputs)
    \/ DeleteSubject(GradeInputs)
    \/ EnrollStudent(GradeInputs)
    \/ UnenrollStudent(GradeInputs)
    \/ CreateScore(GradeInputs)
    \/ ListScores(GradeInputs)
    \/ GetScoreById(GradeInputs)
    \/ UpdateScore(GradeInputs)
    \/ DeleteScore(GradeInputs)
    \/ ScoresPorEstudiante(GradeInputs)
    \/ ScoresPorMateria(GradeInputs)

SpecGrades == InitGrades /\ [][NextGrades]_vars

(* Profiles: registrations and updates that carry, leave out or empty the  *)
(* fields a role requires or forbids.                                      *)
ProfileInputs ==
    [ user_bodies |->
          { UserCreateBody("ben", "1000004", "ben@uni.edu", PROFESSOR, "pw1", "math", Unset),
            UserCreateBody("carl", "1000006", "carl@uni.edu", PROFESSOR, "pw1", Unset, Unset),
            UserCreateBody("dan", "1000007", "dan@uni.edu", PROFESSOR, "pw1", "", Unset),
            UserCreateBody("leo", "1000005", "leo@uni.edu", STUDENT, "pw1", "math", "law"),
            UserCreateBody("mia", "1000008", "mia@uni.edu", STUDENT, "pw1", "", "law"),
            UserCreateBody("noa", "1000009", "noa@uni.edu", ADMIN, "pw1", Unset, "law") },
      user_updates |->
          { UserUpdateBody(Unset, Unset, "algebra", Unset),
            UserUpdateBody(Unset, Unset, "", Unset),
            UserUpdateBody(Unset, Unset, Unset, "law") },
      user_ids |-> (Eva.user_id + 1)..MaxUserId,
      tokens |-> {} ]

InitProfiles ==
    /\ InitDB({Root, Ana, Eva})
    /\ issued = {TokenOf(Root), TokenOf(Ana), TokenOf(Eva)}

NextProfiles ==
    \/ CreateUser(ProfileInputs)
    \/ UpdateMyUser(ProfileInputs)
    \/ DeleteUser(ProfileInputs)

SpecProfiles == InitProfiles /\ [][NextProfiles]_vars

(* The catalog under the requests a client is free to send: a professor_id *)
(* that names no user, a student_id that names a professor or no user, a   *)
(* valor outside 0..100.                                                   *)
CatalogInputs ==
    [ subject_ids |-> {1},
      professor_ids |-> {Ben.user_id, 6},
      student_ids |-> {Leo.user_id, Ben.user_id, 6},
      score_types |-> {"parcial"},
      valores |-> {50, 150},
      score_ids |-> 1..MaxScoreId,
      user_ids |-> {Ben.user_id, Leo.user_id},
      tokens |-> {} ]

InitCatalog ==
    /\ InitDB({Root, Ana, Ben, Leo})
    /\ issued = {TokenOf(Root), TokenOf(Ana), TokenOf(Ben)}

NextCatalog ==
    \/ CreateSubject(CatalogInputs)
    \/ MySubjects(CatalogInputs)
    \/ ListSubjectStudents(CatalogInputs)
    \/ UpdateSubject(CatalogInputs)
    \/ DeleteSubject(CatalogInputs)
    \/ EnrollStudent(CatalogInputs)
    \/ UnenrollStudent(CatalogInputs)
    \/ CreateScore(CatalogInputs)
    \/ UpdateScore(CatalogInputs)
    \/ DeleteScore(CatalogInputs)
    \/ DeleteUser(CatalogInputs)

SpecCatalog == InitCatalog /\ [][NextCatalog]_vars

(* Concurrent workers: an administrator and a professor hold a token; two  *)
(* registrations share an email, and the requests to grade ask for the     *)
(* same student, subject and kind of grade.                                *)
RaceInputs ==
    [ user_bodies |->
          { UserCreateBody("ben", "1000004", "ben@uni.edu", PROFESSOR, "pw1", "math", Unset),
            UserCreateBody("ben2", "1000008", "ben@uni.edu", STUDENT, "pw1", Unset, "law") },
      user_updates |-> { UserUpdateBody("ben@uni.edu", Unset, Unset, Unset) },
      user_ids |-> {Eva.user_id} \cup (Eva.user_id + 1)..MaxUserId,
      subject_ids |-> {1},
      student_ids |-> {Eva.user_id},
      score_types |-> {"parcial"},
      valores |-> {50, 70},
      tokens |-> {} ]

InitRace ==
    /\ InitDB({Root, Ana, Eva})
    /\ issued = {TokenOf(Root), TokenOf(Ana)}

NextRace ==
    \/ BeginCreateUser(RaceInputs)
    \/ CommitCreateUser
    \/ UpdateMyUser(RaceInputs)
    \/ DeleteUser(RaceInputs)
    \/ EnrollStudent(RaceInputs)
    \/ BeginCreateScore(RaceInputs)
    \/ CommitCreateScore

SpecRace == InitRace /\ [][NextRace]_vars

(* Enrollment: the owner of the subject, another professor and an         *)
(* administrator hold a token; two workers serve the requests to enroll;   *)
(* a student can be deleted while a request waits.                         *)
EnrollInputs ==
    [ subject_ids |-> {1},
      student_ids |-> {Eva.user_id, Leo.user_id},
      user_ids |-> {Leo.user_id},
      workers |-> {1, 2},
      tokens |-> {} ]

InitEnroll ==
    /\ InitDB({Root, Ana, Eva, Ben, Leo})
    /\ issued = {TokenOf(Root), TokenOf(Ana), TokenOf(Ben)}

NextEnroll ==
    \/ BeginEnrollStudent(EnrollInputs)
    \/ CommitEnrollStudent
    \/ UnenrollStudent(EnrollInputs)
    \/ DeleteUser(EnrollInputs)

SpecEnroll == InitEnroll /\ [][NextEnroll]_vars

-----------------------------------------------------------------------------
(* Properties *)

ScoreReadOps == {"list_scores", "get_score", "scores_por_estudiante", "scores_por_materia"}

CallerRole == get_role_enum(GetUser(resp.caller).role_id)

(* C1: a student who reads scores, through any of the four read endpoints, *)
(* is returned only scores whose student_id is the student's own user_id,  *)
(* and a read that would return another student's score answers 403.      *)
C1_StudentReadsOwnScoresOnly ==
    (resp.op \in ScoreReadOps /\ resp.caller # NoneInt /\ CallerRole = STUDENT) =>
        /\ resp.status = 200 => \A s \in resp.body : s.student_id = resp.caller
        /\ ( /\ resp.op = "scores_por_materia"
             /\ \E s \in scores : s.subject_id = resp.target /\ s.student_id # resp.caller )
           => resp.status = 403
        /\ ( /\ resp.op = "scores_por_estudiante"
             /\ \E s \in scores : s.student_id = resp.target /\ s.student_id # resp.caller )
           => resp.status = 403
        /\ ( /\ resp.op = "get_score"
             /\ \E s \in scores : s.score_id = resp.target /\ s.student_id # resp.caller )
           => resp.status = 403

(* C2: a professor who reads scores, through any of the four read          *)
(* endpoints, is returned only scores whose professor_id is the            *)
(* professor's own user_id.                                                *)
C2_ProfessorReadsOwnScoresOnly ==
    ( /\ resp.op \in ScoreReadOps /\ resp.caller # NoneInt /\ CallerRole = PROFESSOR
      /\ resp.status = 200 )
    => \A s \in resp.body : s.professor_id = resp.caller

(* C3: create_user goes through for a request without a token and for an  *)
(* administrator, and answers 403 and stores no user for a valid token of  *)
(* a user who is not an administrator.                                     *)
C3_CreateUserAdminOrAnonymous ==
    \A token \in Credentials(AuthInputs), body \in AuthInputs.user_bodies :
        LET current_user == get_current_user(token)
            r == create_user(token, body)
        IN  /\ (current_user # NoUser /\ RoleOf(current_user) # ADMIN)
                  => (r.status = 403 /\ r.db = DB)
            /\ (token = NoToken \/ (current_user # NoUser /\ RoleOf(current_user) = ADMIN))
                  => r.status \notin {401, 403}

(* C4: POST /token answers 200 with a token exactly when a user with the   *)
(* given username exists and the password matches that user's stored hash; *)
(* the token is signed, carries that user's name_user, user_id and role    *)
(* and expires ACCESS_TOKEN_EXPIRE_MINUTES after it is issued; every other *)
(* request is answered 401 without a token.                                *)
C4_TokenIffCredentials ==
    \A username \in AuthInputs.usernames \cup {"zed"}, password \in AuthInputs.passwords :
        LET r == login_for_access_token(username, password)
            matching == { u \in users : /\ u.name_user = username
                                        /\ u.hashed_password = <<"bcrypt", password>> }
        IN  /\ r.status = 200 <=> matching # {}
            /\ r.status = 200 =>
                  \E u \in matching :
                      r.body = { [ sub |-> u.name_user, user_id |-> u.user_id,
                                   role |-> RoleOf(u),
                                   exp |-> now + ACCESS_TOKEN_EXPIRE_MINUTES,
                                   signed |-> TRUE ] }
            /\ r.status # 200 => (r.status = 401 /\ r.body = {})
            /\ r.db = DB

C4_Witness ==
    /\ resp.op = "login_for_access_token"
    /\ resp.status = 200
    /\ \E t \in resp.body, u \in users :
          /\ t \in issued
          /\ t.sub = u.name_user /\ t.user_id = u.user_id
          /\ u.hashed_password = <<"bcrypt", "pw2">>

(* Every result a protected endpoint can give for a token *)
ProtectedResults(token) ==
    LET I == AuthInputs
        G == [ professor_ids |-> {2, 4}, student_ids |-> {3, 4}, score_ids |-> {1},
               score_types |-> {"parcial"}, valores |-> {50} ]
    IN  {read_users_me(token), list_users(token), list_subjects(token), my_subjects(token),
         list_scores(token)}
        \cup {read_user(token, id) : id \in I.user_ids}
        \cup {delete_user(token, id) : id \in I.user_ids}
        \cup {update_my_user(token, b) : b \in I.user_updates}
        \cup {create_subject(token, SubjectCreateBody(p)) : p \in G.professor_ids}
        \cup {get_subject(token, id) : id \in I.subject_ids}
        \cup {update_subject(token, id, SubjectCreateBody(p)) :
                 id \in I.subject_ids, p \in G.professor_ids}
        \cup {delete_subject(token, id) : id \in I.subject_ids}
        \cup {list_subject_students(token, id) : id \in I.subject_ids}
        \cup {enroll_student(token, id, st) : id \in I.subject_ids, st \in G.student_ids}
        \cup {unenroll_student(token, id, st) : id \in I.subject_ids, st \in G.student_ids}
        \cup {create_score(token, ScoreCreateBody(st, id, ty, v)) :
                 st \in G.student_ids, id \in I.subject_ids,
                 ty \in G.score_types, v \in G.valores}
        \cup {get_score(token, id) : id \in G.score_ids}
        \cup {update_score(token, id, ScoreBaseBody(ty, v)) :
                 id \in G.score_ids, ty \in G.score_types, v \in G.valores}
        \cup {delete_score(token, id) : id \in G.score_ids}
        \cup {scores_por_estudiante(token, st) : st \in G.student_ids}
        \cup {scores_por_materia(token, id) : id \in I.subject_ids}

(* C5: a token authenticates a request exactly when it is signed with the  *)
(* key, its expiry has not passed, it carries sub and user_id, and a user  *)
(* with that name_user and that user_id is stored; with any other token,   *)
(* and without one, every protected endpoint answers 401 and leaves the    *)
(* database as it was.                                                     *)
C5_AuthenticatedIffValidToken ==
    \A token \in Credentials(AuthInputs) :
        LET valid ==
                /\ token # NoToken
                /\ token.signed
                /\ now <= token.exp
                /\ token.sub # NoneStr
                /\ token.user_id # NoneInt
                /\ \E u \in users : u.name_user = token.sub /\ u.user_id = token.user_id
        IN  /\ valid <=> get_current_user(token) # NoUser
            /\ valid => /\ get_current_user(token) \in users
                        /\ get_current_user(token).name_user = token.sub
                        /\ get_current_user(token).user_id = token.user_id
            /\ ~valid => \A r \in ProtectedResults(token) : r.status = 401 /\ r.db = DB

ProtectedOps ==
    {"read_users_me", "read_user", "update_my_user", "delete_user", "list_users",
     "list_subjects", "get_subject"}

(* The one issued token has expired, or its user is gone, and a protected  *)
(* endpoint has answered 401.                                              *)
C5_Witness ==
    /\ resp.op \in ProtectedOps
    /\ resp.status = 401
    /\ issued # {}
    /\ \A t \in issued : t.exp < now \/ GetUser(t.user_id) = NoUser

(* C6: delete_user, list_users, list_subjects and get_subject succeed only *)
(* for a caller whose stored role is ADMIN; for an authenticated student   *)
(* or professor they answer 403 and leave the database as it was.          *)
AdminResults(token) ==
    {list_users(token), list_subjects(token)}
    \cup {delete_user(token, id) : id \in AuthInputs.user_ids}
    \cup {get_subject(token, id) : id \in AuthInputs.subject_ids \cup {2}}

C6_AdminOnly ==
    \A token \in Credentials(AuthInputs) :
        LET current_user == get_current_user(token) IN
        \A r \in AdminResults(token) :
            /\ r.status \in {200, 204} =>
                  (current_user # NoUser /\ RoleOf(current_user) = ADMIN)
            /\ r.db # DB => (current_user # NoUser /\ RoleOf(current_user) = ADMIN)
            /\ (current_user # NoUser /\ RoleOf(current_user) \in {STUDENT, PROFESSOR})
                  => (r.status = 403 /\ r.db = DB)

C6_Witness ==
    /\ resp.op = "delete_user"
    /\ resp.status = 204
    /\ GetUser(resp.target) = NoUser
    /\ \E t \in issued : t.user_id = resp.caller /\ t.role = ADMIN

(* C7: update_subject, delete_subject, enroll_student, unenroll_student    *)
(* and create_score succeed only for a professor whose user_id is the      *)
(* professor_id of the subject when the request is made; a professor who   *)
(* does not own the subject, and a caller who is not a professor, get 403  *)
(* and the database stays as it was.                                       *)
SubjectWriteResults(token, subject_id) ==
    LET I == CatalogInputs IN
    {delete_subject(token, subject_id)}
    \cup {update_subject(token, subject_id, SubjectCreateBody(p)) : p \in I.professor_ids}
    \cup {enroll_student(token, subject_id, st) : st \in I.student_ids}
    \cup {unenroll_student(token, subject_id, st) : st \in I.student_ids}
    \cup {create_score(token, ScoreCreateBody(st, subject_id, ty, v)) :
             st \in I.student_ids, ty \in I.score_types, v \in I.valores}

C7_SubjectOwnerOnly ==
    \A token \in Credentials(CatalogInputs), subject_id \in CatalogInputs.subject_ids :
        LET current_user == get_current_user(token)
            subject == GetSubject(subject_id)
            owner == /\ RoleOf(current_user) = PROFESSOR
                     /\ subject.professor_id = current_user.user_id
        IN  (current_user # NoUser /\ subject # NoSubject) =>
                \A r \in SubjectWriteResults(token, subject_id) :
                    /\ r.status \in {200, 201, 204} => owner
                    /\ r.db # DB => owner
                    /\ ~owner => (r.status = 403 /\ r.db = DB)

(* C8: update_score and delete_score change the scores only for a          *)
(* professor whose user_id is the professor_id of the score; another       *)
(* professor gets 403, a professor asking for a score that does not exist  *)
(* gets 404, and in both cases the database stays as it was.               *)
ScoreWriteResults(token, score_id) ==
    {delete_score(token, score_id)}
    \cup {update_score(token, score_id, ScoreBaseBody(ty, v)) :
             ty \in GradeInputs.score_types, v \in GradeInputs.valores}

C8_ScoreOwnerOnly ==
    \A token \in Credentials(GradeInputs), score_id \in 1..(MaxScoreId + 1) :
        LET current_user == get_current_user(token)
            score == GetScore(score_id)
            professor == current_user # NoUser /\ RoleOf(current_user) = PROFESSOR
        IN  \A r \in ScoreWriteResults(token, score_id) :
                /\ r.db # DB =>
                      /\ professor
                      /\ score # NoScore
                      /\ score.professor_id = current_user.user_id
                      /\ r.db = [DB EXCEPT !.scores = r.db.scores]
                      /\ \A s \in scores \ r.db.scores : s.score_id = score_id
                      /\ \A s \in r.db.scores \ scores :
                            s.score_id = score_id /\ s.professor_id = score.professor_id
                /\ (professor /\ score # NoScore /\ score.professor_id # current_user.user_id)
                      => (r.status = 403 /\ r.db = DB)
                /\ (professor /\ score = NoScore) => (r.status = 404 /\ r.db = DB)

(* Another professor has asked to change a score and got 403 *)
C8_Witness ==
    /\ resp.op \in {"update_score", "delete_score"}
    /\ resp.status = 403
    /\ CallerRole = PROFESSOR
    /\ GetScore(resp.target) # NoScore
    /\ GetScore(resp.target).professor_id # resp.caller

(* C9: read_user returns the data of the user asked for, and only to an    *)
(* administrator or to that user; any other authenticated caller gets 403, *)
(* whether the user asked for exists or not.                               *)
C9_ReadUserAdminOrSelf ==
    \A token \in Credentials(AuthInputs), user_id \in 1..(MaxUserId + 1) :
        LET current_user == get_current_user(token)
            r == read_user(token, user_id)
            allowed == RoleOf(current_user) = ADMIN \/ current_user.user_id = user_id
        IN  current_user # NoUser =>
                /\ r.status = 200 =>
                      /\ allowed
                      /\ \E u \in users : u.user_id = user_id /\ r.body = {convert_user_to_public(u)}
                /\ ~allowed => (r.status = 403 /\ r.body = {})
                /\ r.db = DB

(* A caller who is not an administrator has asked for a user that does not *)
(* exist and got 403.                                                      *)
C9_Witness ==
    /\ resp.op = "read_user"
    /\ resp.status = 403
    /\ resp.caller # NoneInt
    /\ GetUser(resp.target) = NoUser

(* C10: no two stored scores have the same student_id, subject_id and      *)
(* score_type.                                                             *)
C10_ScoreTripleUnique ==
    \A s1 \in scores, s2 \in scores :
        ( /\ s1.student_id = s2.student_id
          /\ s1.subject_id = s2.subject_id
          /\ s1.score_type = s2.score_type ) => s1 = s2

(* update_score has asked for the score_type of another score of the same  *)
(* student and subject, and the commit was refused.                        *)
C10_Witness ==
    /\ resp.op = "update_score"
    /\ resp.status = 500
    /\ \E s1 \in scores, s2 \in scores :
          /\ s1.score_id = resp.target
          /\ s2.score_id # s1.score_id
          /\ s1.student_id = s2.student_id
          /\ s1.subject_id = s2.subject_id

(* C11: no two stored users have the same name_user, the same cedula or   *)
(* the same email, however create_user, update_my_user and delete_user     *)
(* requests follow and overlap one another.                                *)
C11_UserKeysUnique ==
    \A u1 \in users, u2 \in users :
        ( \/ u1.name_user = u2.name_user
          \/ u1.cedula = u2.cedula
          \/ u1.email = u2.email ) => u1 = u2

(* update_my_user has asked for the email of another user and the commit   *)
(* was refused.                                                            *)
C11_Witness ==
    /\ resp.op = "update_my_user"
    /\ resp.status = 500
    /\ \E u \in users, body \in RaceInputs.user_updates :
          u.user_id # resp.caller /\ u.email = body.email

(* C12: every score names a student, a professor and a subject that       *)
(* exist, every subject names a professor that exists, and every           *)
(* enrollment names a student and a subject that exist, also after         *)
(* delete_user, delete_subject and update_subject.                         *)
C12_ReferentialIntegrity ==
    /\ \A s \in scores :
          /\ \E u \in users : u.user_id = s.student_id
          /\ \E u \in users : u.user_id = s.professor_id
          /\ \E x \in subjects : x.subject_id = s.subject_id
    /\ \A x \in subjects : \E u \in users : u.user_id = x.professor_id
    /\ \A l \in links :
          /\ \E u \in users : u.user_id = l[1]
          /\ \E x \in subjects : x.subject_id = l[2]

(* C13: a stored user with a specialization is a professor and a stored   *)
(* user with a career is a student; create_user and update_my_user answer  *)
(* 422 and store nothing when the request would give a specialization to a *)
(* user who is not a professor or a career to a user who is not a student. *)
NonEmpty(v) == v \notin {Unset, NoneStr, ""}

C13_ProfileFieldsMatchRole ==
    /\ \A u \in users :
          /\ NonEmpty(u.specialization) => RoleOf(u) = PROFESSOR
          /\ NonEmpty(u.career) => RoleOf(u) = STUDENT
    /\ \A token \in Credentials(ProfileInputs), body \in ProfileInputs.user_bodies :
          ( \/ (body.role # PROFESSOR /\ NonEmpty(body.specialization))
            \/ (body.role # STUDENT /\ NonEmpty(body.career)) )
          => (create_user(token, body).status = 422 /\ create_user(token, body).db = DB)
    /\ \A token \in Credentials(ProfileInputs), body \in ProfileInputs.user_updates :
          LET current_user == get_current_user(token) IN
          ( /\ current_user # NoUser
            /\ \/ (RoleOf(current_user) # PROFESSOR /\ NonEmpty(body.specialization))
               \/ (RoleOf(current_user) # STUDENT /\ NonEmpty(body.career)) )
          => (update_my_user(token, body).status = 422 /\ update_my_user(token, body).db = DB)

(* A student has asked update_my_user for a specialization and got 422,    *)
(* while a professor registered since is stored with one.                  *)
C13_Witness ==
    /\ resp.op = "update_my_user"
    /\ resp.status = 422
    /\ CallerRole = STUDENT
    /\ \E u \in users \ {Root, Ana, Eva} : NonEmpty(u.specialization)

(* C14: create_user rejects, and stores nothing for, a professor without  *)
(* a specialization and a student without a career, so every stored        *)
(* professor has a specialization and every stored student has a career.   *)
C14_RequiredProfileFields ==
    /\ \A token \in Credentials(ProfileInputs), body \in ProfileInputs.user_bodies :
          ( \/ (body.role = PROFESSOR /\ ~NonEmpty(body.specialization))
            \/ (body.role = STUDENT /\ ~NonEmpty(body.career)) )
          => (create_user(token, body).status # 201 /\ create_user(token, body).db = DB)
    /\ \A u \in users :
          /\ RoleOf(u) = PROFESSOR => NonEmpty(u.specialization)
          /\ RoleOf(u) = STUDENT => NonEmpty(u.career)

(* C15: every stored score has a valor from 0 to 100: create_score and     *)
(* update_score never store a valor below 0 or above 100.                  *)
C15_ValorInRange ==
    \A s \in scores : 0 <= s.valor /\ s.valor <= 100

(* C16: create_score stores a score only for a user who exists, is a      *)
(* student and is enrolled in the subject when the request is made; asked  *)
(* by the professor of the subject, it answers 404 when the student does   *)
(* not exist or is not a student and 409 when the student is not enrolled, *)
(* and stores nothing.                                                     *)
ScoreCreateBodies(I) ==
    { ScoreCreateBody(student_id, subject_id, score_type, valor) :
        student_id \in I.student_ids, subject_id \in I.subject_ids,
        score_type \in I.score_types, valor \in I.valores }

C16_ScoreOnlyForEnrolledStudent ==
    \A token \in Credentials(CatalogInputs), score \in ScoreCreateBodies(CatalogInputs) :
        LET r == create_score(token, score)
            current_user == get_current_user(token)
            subject == GetSubject(score.subject_id)
            student == GetUser(score.student_id)
            is_student == student # NoUser /\ RoleOf(student) = STUDENT
            enrolled == <<score.student_id, score.subject_id>> \in links
            owner == /\ current_user # NoUser
                     /\ RoleOf(current_user) = PROFESSOR
                     /\ subject # NoSubject
                     /\ subject.professor_id = current_user.user_id
        IN  /\ r.db # DB => (is_student /\ enrolled)
            /\ (owner /\ ~is_student) => (r.status = 404 /\ r.db = DB)
            /\ (owner /\ is_student /\ ~enrolled) => (r.status = 409 /\ r.db = DB)

(* The professor of the subject has asked to grade a user who is enrolled  *)
(* but is not a student, and got 404.                                      *)
C16_Witness ==
    /\ resp.op = "create_score"
    /\ resp.status = 404
    /\ GetSubject(1) # NoSubject
    /\ resp.caller = GetSubject(1).professor_id
    /\ \E l \in links : RoleOf(GetUser(l[1])) # STUDENT

(* C17: every enrollment names a user whose role is student: enroll_student *)
(* never enrolls a professor or an administrator.                          *)
C17_OnlyStudentsEnrolled ==
    \A l \in links : RoleOf(GetUser(l[1])) = STUDENT

(* C18: create_subject asked by a professor answers 201 and stores one new *)
(* subject whose professor_id is the user_id of that professor, whatever   *)
(* professor_id the body carries.                                          *)
C18_CreateSubjectStoresOwn ==
    (resp.op = "create_subject" /\ resp.caller # NoneInt /\ CallerRole = PROFESSOR) =>
        /\ resp.status = 201
        /\ \E s \in subjects : resp.body = {s} /\ s.professor_id = resp.caller

(* C19: create_user with a valid body whose email, name_user or cedula is  *)
(* that of a stored user answers 409 and leaves the users as they were; a  *)
(* creation that fails at its commit is rolled back and answers 500, and   *)
(* leaves the users as they were.                                          *)
SharesKey(u, body) ==
    u.email = body.email \/ u.name_user = body.name_user \/ u.cedula = body.cedula

C19_ConflictOrRollback ==
    /\ \A token \in Credentials(RaceInputs), body \in RaceInputs.user_bodies :
          (UserCreate_valid(body) /\ \E u \in users : SharesKey(u, body))
          => (create_user(token, body).status = 409 /\ create_user(token, body).db = DB)
    /\ \A request \in inflight :
          request.op = "create_user" =>
              LET r == create_user_commit(request.body) IN
              /\ (\E u \in users : SharesKey(u, request.body)) => r.status = 500
              /\ r.status # 201 => (r.status = 500 /\ r.db = DB)
    /\ (resp.op = "create_user" /\ resp.status \in {409, 500}) => resp.body = {}

(* Two registrations with the same email passed their checks together; one *)
(* is stored and the commit of the other was rolled back with 500.         *)
C19_Witness ==
    /\ resp.op = "create_user"
    /\ resp.status = 500
    /\ \E u \in users \ {Root, Ana, Eva}, body \in RaceInputs.user_bodies :
          u.email = body.email /\ u.name_user # body.name_user

(* C20: of two create_score requests for the same student, subject and     *)
(* kind of grade that run together, whatever the order of their checks and *)
(* commits, at most one stores a score; the commit of the other fails and  *)
(* stores nothing.                                                         *)
SameTriple(s, score) ==
    /\ s.student_id = score.student_id
    /\ s.subject_id = score.subject_id
    /\ s.score_type = score.score_type

C20_OneOfTwoConcurrentScores ==
    /\ \A request \in inflight :
          request.op = "create_score" =>
              LET r == create_score_commit(request.caller, request.body) IN
              /\ (\E s \in scores : SameTriple(s, request.body))
                    => (r.status = 500 /\ r.db = DB)
              /\ r.status # 201 => r.db = DB
    /\ \A s1 \in scores, s2 \in scores : SameTriple(s1, s2) => s1 = s2

(* Two requests for the same grade passed their checks together; one score *)
(* is stored and the commit of the other request failed.                   *)
C20_Witness ==
    /\ resp.op = "create_score"
    /\ resp.status = 500
    /\ Cardinality(scores) = 1
    /\ \E s \in scores, score \in ScoreCreateBodies(RaceInputs) : SameTriple(s, score)

(* C21: a request to enroll a pair (student_id, subject_id) that is already *)
(* enrolled is answered 409 and leaves the enrollments as they are, both    *)
(* when the request finds the pair enrolled at its check and when, having   *)
(* interleaved with another request for the pair, it finds it enrolled at   *)
(* its commit. The links table holds at most one row per pair by its        *)
(* primary key, which is why links is a set of pairs.                       *)
C21_EnrollOnceOr409 ==
    [][ /\ \A token \in Credentials(EnrollInputs), subject_id \in EnrollInputs.subject_ids,
              student_id \in EnrollInputs.student_ids :
              (/\ <<student_id, subject_id>> \in links
               /\ enroll_student_checks(token, subject_id, student_id) \in {0, 409})
                  => /\ enroll_student(token, subject_id, student_id).status = 409
                     /\ enroll_student(token, subject_id, student_id).db = DB
        /\ \A request \in inflight \ inflight' :
              (/\ request.op = "enroll_student"
               /\ <<request.body.student_id, request.body.subject_id>> \in links)
                  => (resp'.status = 409 /\ links' = links)
      ]_vars

(* C22: when the caller owns the subject and the student is not enrolled in *)
(* it, enroll_student answers 200 and adds the pair; unenroll_student for   *)
(* the same pair, asked next, answers 200 and leaves the enrollments, and   *)
(* the rest of the database, as they were before the enrollment; and once   *)
(* the pair is unenrolled, another unenroll_student for it answers 404 and  *)
(* changes nothing.                                                         *)
C22_EnrollUnenrollRoundTrip ==
    [][ \A token \in Credentials(EnrollInputs), subject_id \in EnrollInputs.subject_ids,
           student_id \in EnrollInputs.student_ids :
            LET pair == <<student_id, subject_id>> IN
            /\ (/\ get_current_professor_user(token) = 0
                /\ GetSubject(subject_id) # NoSubject
                /\ GetSubject(subject_id).professor_id = Caller(token)
                /\ GetUser(student_id) # NoUser
                /\ pair \notin links)
                   => /\ enroll_student(token, subject_id, student_id).status = 200
                      /\ enroll_student(token, subject_id, student_id).db
                            = [DB EXCEPT !.links = links \cup {pair}]
            /\ (/\ resp'.op = "enroll_student"
                /\ resp'.status = 200
                /\ resp'.caller = Caller(token)
                /\ pair \notin links
                /\ pair \in links')
                   => /\ unenroll_student(token, subject_id, student_id)'.status = 200
                      /\ unenroll_student(token, subject_id, student_id)'.db.links = links
                      /\ unenroll_student(token, subject_id, student_id)'.db
                            = [DB' EXCEPT !.links = links]
            /\ (/\ resp'.op = "unenroll_student"
                /\ resp'.status = 200
                /\ resp'.caller = Caller(token)
                /\ pair \in links
                /\ pair \notin links')
                   => /\ unenroll_student(token, subject_id, student_id)'.status = 404
                      /\ unenroll_student(token, subject_id, student_id)'.db = DB'
      ]_vars

(* The owner has enrolled a student and then unenrolled the student *)
C22_Witness ==
    /\ resp.op = "unenroll_student"
    /\ resp.status = 200
    /\ GetSubject(resp.target) # NoSubject
    /\ GetSubject(resp.target).professor_id = resp.caller
    /\ \A student_id \in EnrollInputs.student_ids : <<student_id, resp.target>> \notin links

====
